---- MODULE Spec2Model ----
(***************************************************************************)
(* Model of the training driver train_dist.py of Group-Free-3D: the        *)
(* EarlyStopping object, checkpoint save/load, the epoch loop of main with  *)
(* its per-rank control flow, and the batch loop of train_one_epoch.        *)
(*                                                                          *)
(* Numeric abstractions: losses, scores and delta are integers; the model,  *)
(* optimizer and scheduler states are the number of optimizer.step /        *)
(* scheduler.step calls applied to them.  A checkpoint's 'epoch' entry is   *)
(* either an int or the string 'last'; it is kept as a tagged record so     *)
(* that the two never compare equal.                                        *)
(***************************************************************************)
EXTENDS Integers, Sequences, FiniteSets, TLC

\* ---------------------------------------------------------------- bounds
MaxPatience == 3      \* patience values tried for a stand-alone EarlyStopping
MaxDelta == 1         \* delta ranges over -MaxDelta..MaxDelta
MaxLoss == 2          \* validation losses range over 1..MaxLoss
MaxCalls == 6         \* calls made to a stand-alone EarlyStopping
MaxSaveFreq == 2      \* save_freq ranges over 1..MaxSaveFreq
MaxValFreq == 2       \* val_freq ranges over 1..MaxValFreq
MaxBatches == 2       \* len(train_loader) ranges over 0..MaxBatches
MaxVals == 22         \* validation epochs of a long run
ShortEpoch == 3       \* max_epoch of a short run
MaxCkptEpoch == 2     \* epochs of the checkpoints a run may resume from
MaxLayers == 3        \* num_decoder_layers ranges over -1..MaxLayers
MaxEvals == 3         \* calls of evaluate_one_epoch on one plots_dict

\* ------------------------------------------------------ program constants
Inf == 1000           \* np.Inf: larger than every loss of the model
MainPatience == 20    \* EarlyStopping(patience=20, verbose=True) in main
TrainEvalFreq == 40   \* default of --train_eval_freq
DecoderLayers == 8    \* default of --num_decoder_layers

VARIABLES
  opt,                \* the parsed arguments (args / opt)
  world,              \* number of ranks of the process group
  n_batches,          \* len(train_loader)
  ckpt_in,            \* content of the file at args.checkpoint_path
  pc,                 \* per rank: position in main
  start_epoch,        \* per rank: args.start_epoch
  epoch,              \* per rank: loop variable of main
  net,                \* per rank: model / optimizer / scheduler state
  batch_idx,          \* per rank: batches of the running train_one_epoch done
  ops,                \* per rank: steps of the current batch, in order
  arrive,             \* per rank: gradient all-reduces entered
  sampler_epoch,      \* per rank: last train_loader.sampler.set_epoch value
  trained,            \* per rank: epochs whose train_one_epoch returned
  files,              \* per rank: checkpoint files in args.log_dir
  wlog,               \* per rank: files written since the last train_one_epoch
  es,                 \* the EarlyStopping object (rank 0 is its only caller)
  hist,               \* losses passed to a stand-alone EarlyStopping, or
                      \* returned by a stand-alone evaluate_one_epoch
  last,               \* facts about the latest EarlyStopping.__call__
  val_metrics_dict,   \* rank 0: plot key -> length of its list
  train_metrics_dict, \* rank 0: plot key -> length of its list
  final_evals,        \* per rank: evaluations run after the epoch loop
  ret,                \* per rank: value returned by main
  sched_at_entry,     \* per rank: scheduler state when train_one_epoch began
  exit_epoch,         \* per rank: epoch at which the loop was left by break
  last_improved       \* latest epoch whose EarlyStopping call improved

vars == << opt, world, n_batches, ckpt_in, pc, start_epoch, epoch, net,
           batch_idx, ops, arrive, sampler_epoch, trained, files, wlog, es,
           hist, last, val_metrics_dict, train_metrics_dict, final_evals,
           ret, sched_at_entry, exit_epoch, last_improved >>

\* A single process, and a process group with a second rank.
WorldSizes == {1, 2}
Ranks == 0 .. (world - 1)
Losses == 1 .. MaxLoss

\* ------------------------------------------------------- checkpoint keys
\* The 'epoch' argument of save_checkpoint: an int, or the string 'last'.
IntEpoch(n) == [str |-> FALSE, n |-> n]
LastEpoch == [str |-> TRUE, n |-> 0]

\* ---------------------------------------------------------- EarlyStopping
EarlyStopping_init(patience, delta) ==
  [ patience |-> patience, counter |-> 0, best_none |-> TRUE, best_score |-> 0,
    early_stop |-> FALSE, val_loss_min |-> Inf, delta |-> delta ]

\* save_checkpoint(args, epoch, model, optimizer, scheduler, save_cur):
\* the file system after the call.  The file name ckpt_epoch_{epoch}.pth is
\* identified with the epoch key it is formatted from.
WritesFileOnlyCur(key, save_cur, save_freq) == save_cur
WritesFile(key, save_cur, save_freq) ==
  save_cur \/ (~key.str /\ key.n % save_freq = 0)

save_checkpoint(fs, key, state, save_cur, save_freq) ==
  IF WritesFile(key, save_cur, save_freq)
  THEN { f \in fs : f.path # key } \cup
       { [ path |-> key, epoch |-> key, model |-> state.model,
           optimizer |-> state.optimizer, scheduler |-> state.scheduler ] }
  ELSE fs

\* EarlyStopping.save_checkpoint: whether it calls the module-level
\* save_checkpoint with save_cur=True (the `if epoch % opt.save_freq` test).
ES_savesInverted(ep, save_freq) == (ep % save_freq) = 0
ES_saves(ep, save_freq) == (ep % save_freq) # 0

ES_save_checkpoint(e, val_loss) == [e EXCEPT !.val_loss_min = val_loss]

\* The elif test of EarlyStopping.__call__.
NotImprovedLe(e, score) == score <= e.best_score + e.delta
NotImproved(e, score) == score < e.best_score + e.delta

CounterHitGt(e) == e.counter > e.patience
CounterHit(e) == e.counter >= e.patience

\* EarlyStopping.__call__: the object after the call and whether
\* EarlyStopping.save_checkpoint was reached.
EarlyStopping_call(e, val_loss) ==
  LET score == 0 - val_loss IN
  IF e.best_none
  THEN [ es |-> ES_save_checkpoint([e EXCEPT !.best_none = FALSE,
                                              !.best_score = score], val_loss),
         saved |-> TRUE ]
  ELSE IF NotImproved(e, score)
  THEN LET e1 == [e EXCEPT !.counter = e.counter + 1] IN
       [ es |-> IF CounterHit(e1) THEN [e1 EXCEPT !.early_stop = TRUE] ELSE e1,
         saved |-> FALSE ]
  ELSE [ es |-> [ ES_save_checkpoint([e EXCEPT !.best_score = score], val_loss)
                  EXCEPT !.counter = 0 ],
         saved |-> TRUE ]

\* The facts recorded about one call of the EarlyStopping object.
CallFacts(e, val_loss, ep, r) ==
  [ called |-> TRUE, val_loss |-> val_loss, epoch |-> ep,
    first |-> e.best_none, best_before |-> e.best_score,
    min_before |-> e.val_loss_min, counter_before |-> e.counter,
    stop_before |-> e.early_stop, saved |-> r.saved ]

NoCall ==
  [ called |-> FALSE, val_loss |-> 0, epoch |-> 0, first |-> FALSE,
    best_before |-> 0, min_before |-> 0, counter_before |-> 0,
    stop_before |-> FALSE, saved |-> FALSE ]

NetInit == [ model |-> 0, optimizer |-> 0, scheduler |-> 0 ]

\* ------------------------------------------------------ evaluate_one_epoch
\* The prefixes 'last_', 'proposal_' and f'{i}head_'.
Last_ == [ name |-> "last_", i |-> 0 ]
Proposal_ == [ name |-> "proposal_", i |-> 0 ]
Head_(i) == [ name |-> "head_", i |-> i ]

\* The list `prefixes` built from config.num_decoder_layers.
PrefixesOneHeadMore(n) ==
  IF n > 0
  THEN << Last_, Proposal_ >> \o [ i \in 1 .. n |-> Head_(i - 1) ]
  ELSE << Proposal_ >>
Prefixes(n) ==
  IF n > 0
  THEN << Last_, Proposal_ >> \o [ i \in 1 .. (n - 1) |-> Head_(i - 1) ]
  ELSE << Proposal_ >>

\* The plot keys f'{prefix}_{thresh}_AP' and f'{prefix}_{thresh}_AR'; an IoU
\* threshold is kept in hundredths.  Two keys are the same string exactly
\* when prefix, threshold and suffix agree.
PlotKey(prefix, thresh, kind) ==
  [ prefix |-> prefix, thresh |-> thresh, kind |-> kind ]

\* A defaultdict(list) is the function from its keys to the lengths of
\* their lists; the appended metric values themselves are left out.
EmptyDict == [ k \in {} |-> 0 ]

\* plots_dict[key].append(value)
DictAppend(d, key) ==
  IF key \in DOMAIN d THEN [ d EXCEPT ![key] = @ + 1 ] ELSE (key :> 1) @@ d

\* The loop over ap_calculator_list for one prefix, from calculator i on:
\* one append to the AP list and one to the AR list per calculator.
RECURSIVE AppendMetrics(_, _, _, _)
AppendMetrics(d, prefix, thresholds, i) ==
  IF i > Len(thresholds) THEN d
  ELSE AppendMetrics(
         DictAppend(DictAppend(d, PlotKey(prefix, thresholds[i], "AP")),
                    PlotKey(prefix, thresholds[i], "AR")),
         prefix, thresholds, i + 1)

\* The loop over prefixes, from prefix j on.
RECURSIVE EvalPrefixes(_, _, _, _)
EvalPrefixes(d, prefixes, thresholds, j) ==
  IF j > Len(prefixes) THEN d
  ELSE EvalPrefixes(AppendMetrics(d, prefixes[j], thresholds, 1),
                    prefixes, thresholds, j + 1)

\* evaluate_one_epoch(test_loader, DATASET_CONFIG, CONFIG_DICT,
\* AP_IOU_THRESHOLDS, model, criterion, config, plots_dict): the returned
\* plots_dict.
evaluate_one_epoch(plots_dict, num_decoder_layers, AP_IOU_THRESHOLDS) ==
  EvalPrefixes(plots_dict, Prefixes(num_decoder_layers), AP_IOU_THRESHOLDS, 1)

\* Values of --ap_iou_thresholds: one threshold, the default pair, and a
\* list that names a threshold twice.
ThresholdLists == { << 25 >>, << 25, 50 >>, << 25, 50, 25 >> }
DefaultThresholds == << 25, 50 >>

\* ------------------------------------------- a stand-alone EarlyStopping
\* An EarlyStopping object of any patience and delta, called on successive
\* epochs with arbitrary losses; opt.save_freq is the global it reads.
InitES ==
  /\ world = 1
  /\ n_batches = 1
  /\ \E sf \in 1 .. MaxSaveFreq :
       opt = [ start_epoch |-> 1, max_epoch |-> MaxCalls, val_freq |-> 1,
               save_freq |-> sf, train_eval_freq |-> 1, clip_norm |-> 1,
               checkpoint_path |-> FALSE,
               num_decoder_layers |-> DecoderLayers,
               ap_iou_thresholds |-> DefaultThresholds ]
  /\ ckpt_in = [ path |-> LastEpoch, epoch |-> LastEpoch, model |-> 0,
                 optimizer |-> 0, scheduler |-> 0 ]
  /\ pc = [r \in {0} |-> "es"]
  /\ start_epoch = [r \in {0} |-> 1]
  /\ epoch = [r \in {0} |-> 1]
  /\ net = [r \in {0} |-> NetInit]
  /\ batch_idx = [r \in {0} |-> 0]
  /\ ops = [r \in {0} |-> << >>]
  /\ arrive = [r \in {0} |-> 0]
  /\ sampler_epoch = [r \in {0} |-> 0]
  /\ trained = [r \in {0} |-> << >>]
  /\ files = [r \in {0} |-> {}]
  /\ wlog = [r \in {0} |-> << >>]
  /\ \E p \in 1 .. MaxPatience, d \in (0 - MaxDelta) .. MaxDelta :
       es = EarlyStopping_init(p, d)
  /\ hist = << >>
  /\ last = NoCall
  /\ val_metrics_dict = EmptyDict
  /\ train_metrics_dict = EmptyDict
  /\ final_evals = [r \in {0} |-> 0]
  /\ ret = [r \in {0} |-> "none"]
  /\ sched_at_entry = [r \in {0} |-> 0]
  /\ exit_epoch = [r \in {0} |-> 0 - 1]
  /\ last_improved = 0 - 1

\* early_stopping(val_loss, model, args, epoch, optimizer, scheduler)
ESCall(val_loss) ==
  /\ pc[0] = "es"
  /\ Len(hist) < MaxCalls
  /\ LET r == EarlyStopping_call(es, val_loss)
         w == r.saved /\ ES_saves(epoch[0], opt.save_freq)
     IN /\ es' = r.es
        /\ last' = CallFacts(es, val_loss, epoch[0], r)
        /\ last_improved' = IF r.saved THEN epoch[0] ELSE last_improved
        /\ files' = [files EXCEPT ![0] =
                       IF w THEN save_checkpoint(@, IntEpoch(epoch[0]), net[0],
                                                 TRUE, opt.save_freq)
                       ELSE @]
        /\ wlog' = [wlog EXCEPT ![0] =
                      IF w THEN << [ key |-> IntEpoch(epoch[0]),
                                     by |-> "early_stopping" ] >>
                      ELSE << >>]
  /\ hist' = Append(hist, val_loss)
  /\ epoch' = [epoch EXCEPT ![0] = @ + 1]
  /\ UNCHANGED << opt, world, n_batches, ckpt_in, pc, start_epoch, net,
                  batch_idx, ops, arrive, sampler_epoch, trained,
                  val_metrics_dict, train_metrics_dict, final_evals, ret,
                  sched_at_entry, exit_epoch >>

NextES == \E v \in Losses : ESCall(v)

SpecES == InitES /\ [][NextES]_vars

\* ------------------------------------- a stand-alone evaluate_one_epoch
\* Successive validations of one run: evaluate_one_epoch called with the
\* same val_metrics_dict each time, for any number of decoder layers and
\* any threshold list; hist holds the valid_loss each call returned.
InitEval ==
  /\ world = 1
  /\ n_batches = 1
  /\ \E n \in (0 - 1) .. MaxLayers, th \in ThresholdLists :
       opt = [ start_epoch |-> 1, max_epoch |-> MaxEvals, val_freq |-> 1,
               save_freq |-> 1, train_eval_freq |-> TrainEvalFreq,
               clip_norm |-> 1, checkpoint_path |-> FALSE,
               num_decoder_layers |-> n, ap_iou_thresholds |-> th ]
  /\ ckpt_in = [ path |-> LastEpoch, epoch |-> LastEpoch, model |-> 0,
                 optimizer |-> 0, scheduler |-> 0 ]
  /\ pc = [r \in {0} |-> "eval"]
  /\ start_epoch = [r \in {0} |-> 1]
  /\ epoch = [r \in {0} |-> 1]
  /\ net = [r \in {0} |-> NetInit]
  /\ batch_idx = [r \in {0} |-> 0]
  /\ ops = [r \in {0} |-> << >>]
  /\ arrive = [r \in {0} |-> 0]
  /\ sampler_epoch = [r \in {0} |-> 0]
  /\ trained = [r \in {0} |-> << >>]
  /\ files = [r \in {0} |-> {}]
  /\ wlog = [r \in {0} |-> << >>]
  /\ es = EarlyStopping_init(MainPatience, 0)
  /\ hist = << >>
  /\ last = NoCall
  /\ val_metrics_dict = EmptyDict
  /\ train_metrics_dict = EmptyDict
  /\ final_evals = [r \in {0} |-> 0]
  /\ ret = [r \in {0} |-> "none"]
  /\ sched_at_entry = [r \in {0} |-> 0]
  /\ exit_epoch = [r \in {0} |-> 0 - 1]
  /\ last_improved = 0 - 1

\* val_metrics_dict, valid_loss = evaluate_one_epoch(test_loader, ...,
\* val_metrics_dict)
Validate(valid_loss) ==
  /\ pc[0] = "eval"
  /\ Len(hist) < MaxEvals
  /\ val_metrics_dict' =
       evaluate_one_epoch(val_metrics_dict, opt.num_decoder_layers,
                          opt.ap_iou_thresholds)
  /\ hist' = Append(hist, valid_loss)
  /\ epoch' = [epoch EXCEPT ![0] = @ + 1]
  /\ UNCHANGED << last_improved, opt, world, n_batches, ckpt_in, pc,
                  start_epoch, net, batch_idx, ops, arrive, sampler_epoch,
                  trained, files, wlog, es, last, train_metrics_dict,
                  final_evals, ret, sched_at_entry, exit_epoch >>

NextEval == \E v \in Losses : Validate(v)

SpecEval == InitEval /\ [][NextEval]_vars

\* ------------------------------------------------------------------ main
\* load_checkpoint(args, model, optimizer, scheduler) on checkpoint c:
\* checkpoint['epoch'] + 1 raises TypeError when the stored epoch is the
\* string 'last', before any state is loaded.
load_checkpoint(c, old_start, old_net) ==
  IF c.epoch.str
  THEN [ ok |-> FALSE, start_epoch |-> old_start, net |-> old_net ]
  ELSE [ ok |-> TRUE, start_epoch |-> c.epoch.n + 1,
         net |-> [ model |-> c.model, optimizer |-> c.optimizer,
                   scheduler |-> c.scheduler ] ]

Checkpoint(key, s) ==
  [ path |-> key, epoch |-> key, model |-> s, optimizer |-> s, scheduler |-> s ]

\* Checkpoints left by an earlier run with the same loader: the periodic
\* file of epoch k, and that run's ckpt_epoch_last.pth.
PriorCheckpoints(nb) ==
  { Checkpoint(IntEpoch(k), k * nb) : k \in 1 .. MaxCkptEpoch }
    \cup { Checkpoint(LastEpoch, ShortEpoch * nb) }

\* A short run: every combination of the arguments the loop reads.
ShortOptions ==
  [ start_epoch : {1, ShortEpoch + 1},
    max_epoch : {ShortEpoch},
    val_freq : 1 .. MaxValFreq,
    save_freq : 1 .. MaxSaveFreq,
    train_eval_freq : {TrainEvalFreq},
    clip_norm : {0, 1},
    checkpoint_path : BOOLEAN,
    num_decoder_layers : {DecoderLayers},
    ap_iou_thresholds : {DefaultThresholds} ]

\* A long run, validating and saving at every epoch: long enough for the
\* patience of main to run out.
LongOptions ==
  { [ start_epoch |-> 1, max_epoch |-> MaxVals * vf, val_freq |-> vf,
      save_freq |-> 1, train_eval_freq |-> TrainEvalFreq, clip_norm |-> 1,
      checkpoint_path |-> FALSE, num_decoder_layers |-> DecoderLayers,
      ap_iou_thresholds |-> DefaultThresholds ] : vf \in 1 .. MaxValFreq }

Init ==
  /\ world \in WorldSizes
  /\ \/ opt \in ShortOptions /\ n_batches \in 0 .. MaxBatches
     \/ opt \in LongOptions /\ n_batches = 1
  /\ IF opt.checkpoint_path
     THEN ckpt_in \in PriorCheckpoints(n_batches)
     ELSE ckpt_in = Checkpoint(LastEpoch, 0)
  /\ pc = [r \in Ranks |-> "start"]
  /\ start_epoch = [r \in Ranks |-> opt.start_epoch]
  /\ epoch = [r \in Ranks |-> opt.start_epoch]
  /\ net = [r \in Ranks |-> NetInit]
  /\ batch_idx = [r \in Ranks |-> 0]
  /\ ops = [r \in Ranks |-> << >>]
  /\ arrive = [r \in Ranks |-> 0]
  /\ sampler_epoch = [r \in Ranks |-> 0 - 1]
  /\ trained = [r \in Ranks |-> << >>]
  /\ files = [r \in Ranks |-> {}]
  /\ wlog = [r \in Ranks |-> << >>]
  /\ es = EarlyStopping_init(MainPatience, 0)
  /\ hist = << >>
  /\ last = NoCall
  /\ val_metrics_dict = EmptyDict
  /\ train_metrics_dict = EmptyDict
  /\ final_evals = [r \in Ranks |-> 0]
  /\ ret = [r \in Ranks |-> "none"]
  /\ sched_at_entry = [r \in Ranks |-> 0]
  /\ exit_epoch = [r \in Ranks |-> 0 - 1]
  /\ last_improved = 0 - 1

\* main, lines 317-360: loaders, model, optimizer, scheduler, the optional
\* load_checkpoint, and the construction of the EarlyStopping object.
Startup(r) ==
  /\ pc[r] = "start"
  /\ IF opt.checkpoint_path
     THEN LET l == load_checkpoint(ckpt_in, start_epoch[r], net[r]) IN
          /\ pc' = [pc EXCEPT ![r] = IF l.ok THEN "loop" ELSE "load_error"]
          /\ start_epoch' = [start_epoch EXCEPT ![r] = l.start_epoch]
          /\ epoch' = [epoch EXCEPT ![r] = l.start_epoch]
          /\ net' = [net EXCEPT ![r] = l.net]
     ELSE /\ pc' = [pc EXCEPT ![r] = "loop"]
          /\ UNCHANGED << start_epoch, epoch, net >>
  /\ UNCHANGED << last_improved,
                  opt, world, n_batches, ckpt_in, batch_idx, ops, arrive,
                  sampler_epoch, trained, files, wlog, es, hist, last,
                  val_metrics_dict, train_metrics_dict, final_evals, ret,
                  sched_at_entry, exit_epoch >>

\* for epoch in range(args.start_epoch, args.max_epoch + 1): the next
\* iteration starts with train_loader.sampler.set_epoch(epoch) and enters
\* train_one_epoch, or the range is exhausted.
LoopHead(r) ==
  /\ pc[r] = "loop"
  /\ IF epoch[r] <= opt.max_epoch
     THEN /\ sampler_epoch' = [sampler_epoch EXCEPT ![r] = epoch[r]]
          /\ pc' = [pc EXCEPT ![r] = "train"]
          /\ batch_idx' = [batch_idx EXCEPT ![r] = 0]
          /\ ops' = [ops EXCEPT ![r] = << >>]
          /\ sched_at_entry' = [sched_at_entry EXCEPT ![r] = net[r].scheduler]
     ELSE /\ pc' = [pc EXCEPT ![r] = "after"]
          /\ UNCHANGED << sampler_epoch, batch_idx, ops, sched_at_entry >>
  /\ UNCHANGED << last_improved,
                  opt, world, n_batches, ckpt_in, start_epoch, epoch, net,
                  arrive, trained, files, wlog, es, hist, last,
                  val_metrics_dict, train_metrics_dict, final_evals, ret,
                  exit_epoch >>

\* train_one_epoch, one batch up to the gradient all-reduce: forward pass,
\* criterion, optimizer.zero_grad(), loss.backward().  backward of the
\* DistributedDataParallel model returns only when every rank has entered
\* the same all-reduce.
BatchBegin(r) ==
  /\ pc[r] = "train"
  /\ batch_idx[r] < n_batches
  /\ ops' = [ops EXCEPT ![r] = << "zero_grad", "backward" >>]
  /\ arrive' = [arrive EXCEPT ![r] = @ + 1]
  /\ pc' = [pc EXCEPT ![r] = "allreduce"]
  /\ UNCHANGED << last_improved,
                  opt, world, n_batches, ckpt_in, start_epoch, epoch, net,
                  batch_idx, sampler_epoch, trained, files, wlog, es, hist,
                  last, val_metrics_dict, train_metrics_dict, final_evals,
                  ret, sched_at_entry, exit_epoch >>

\* The steps after backward, in program order.
StepsAfterBackward(clip_norm) ==
  (IF clip_norm > 0 THEN << "clip_grad_norm_" >> ELSE << >>)
    \o << "optimizer.step", "scheduler.step" >>

\* stat_dict['grad_norm'] = grad_total_norm reads a local that is bound only
\* when clip_norm > 0.
GradNormBound(clip_norm) == clip_norm > 0

\* train_one_epoch, the rest of the batch: gradient clipping when
\* clip_norm > 0, optimizer.step(), scheduler.step(), then the statistics.
BatchEnd(r) ==
  /\ pc[r] = "allreduce"
  /\ \A q \in Ranks : arrive[q] >= arrive[r]
  /\ ops' = [ops EXCEPT ![r] = @ \o StepsAfterBackward(opt.clip_norm)]
  /\ net' = [net EXCEPT ![r] = [ model |-> @.model + 1,
                                 optimizer |-> @.optimizer + 1,
                                 scheduler |-> @.scheduler + 1 ]]
  /\ IF GradNormBound(opt.clip_norm)
     THEN /\ batch_idx' = [batch_idx EXCEPT ![r] = @ + 1]
          /\ pc' = [pc EXCEPT ![r] = "train"]
     ELSE /\ pc' = [pc EXCEPT ![r] = "train_error"]
          /\ UNCHANGED batch_idx
  /\ UNCHANGED << last_improved,
                  opt, world, n_batches, ckpt_in, start_epoch, epoch, arrive,
                  sampler_epoch, trained, files, wlog, es, hist, last,
                  val_metrics_dict, train_metrics_dict, final_evals, ret,
                  sched_at_entry, exit_epoch >>

\* train_one_epoch returns once the loader is exhausted.
TrainReturn(r) ==
  /\ pc[r] = "train"
  /\ batch_idx[r] = n_batches
  /\ trained' = [trained EXCEPT ![r] = Append(@, epoch[r])]
  /\ pc' = [pc EXCEPT ![r] = "tail"]
  /\ UNCHANGED << last_improved,
                  opt, world, n_batches, ckpt_in, start_epoch, epoch, net,
                  batch_idx, ops, arrive, sampler_epoch, files, wlog, es,
                  hist, last, val_metrics_dict, train_metrics_dict,
                  final_evals, ret, sched_at_entry, exit_epoch >>

TrainEvalDue(ep) == (ep % opt.train_eval_freq = 0) \/ (ep = opt.val_freq)
ValidationDue(ep) == ep % opt.val_freq = 0

\* save_cur of the periodic save of main and of the final save.
PeriodicSaveCur == FALSE
FinalSaveCurOff == FALSE
FinalSaveCur == TRUE

WroteBy(key, who) == << [ key |-> key, by |-> who ] >>

\* `if early_stopping.early_stop: break` after the early_stopping call.
BreaksNever(e) == FALSE
Breaks(e) == e.early_stop

\* main, lines 378-401 on a rank other than 0: nothing, next iteration.
EpochTailOther(r) ==
  /\ pc[r] = "tail"
  /\ r # 0
  /\ epoch' = [epoch EXCEPT ![r] = @ + 1]
  /\ pc' = [pc EXCEPT ![r] = "loop"]
  /\ UNCHANGED << last_improved,
                  opt, world, n_batches, ckpt_in, start_epoch, net, batch_idx,
                  ops, arrive, sampler_epoch, trained, files, wlog, es, hist,
                  last, val_metrics_dict, train_metrics_dict, final_evals,
                  ret, sched_at_entry, exit_epoch >>

\* main, lines 378-401 on rank 0 at an epoch without validation: the
\* optional train evaluation and the periodic save_checkpoint.
EpochTailNoVal ==
  /\ pc[0] = "tail"
  /\ ~ValidationDue(epoch[0])
  /\ train_metrics_dict' =
       IF TrainEvalDue(epoch[0])
       THEN evaluate_one_epoch(train_metrics_dict, opt.num_decoder_layers,
                               opt.ap_iou_thresholds)
       ELSE train_metrics_dict
  /\ files' = [files EXCEPT ![0] =
                 save_checkpoint(@, IntEpoch(epoch[0]), net[0],
                                 PeriodicSaveCur, opt.save_freq)]
  /\ wlog' = [wlog EXCEPT ![0] =
                IF WritesFile(IntEpoch(epoch[0]), PeriodicSaveCur, opt.save_freq)
                THEN WroteBy(IntEpoch(epoch[0]), "main") ELSE << >>]
  /\ epoch' = [epoch EXCEPT ![0] = @ + 1]
  /\ pc' = [pc EXCEPT ![0] = "loop"]
  /\ UNCHANGED << last_improved,
                  opt, world, n_batches, ckpt_in, start_epoch, net, batch_idx,
                  ops, arrive, sampler_epoch, trained, es, hist, last,
                  val_metrics_dict, final_evals, ret, sched_at_entry,
                  exit_epoch >>

\* main, lines 378-401 on rank 0 at a validation epoch: the optional train
\* evaluation, evaluate_one_epoch on the test loader giving valid_loss, the
\* early_stopping call, then break or the periodic save_checkpoint.
EpochTailVal(valid_loss) ==
  /\ pc[0] = "tail"
  /\ ValidationDue(epoch[0])
  /\ train_metrics_dict' =
       IF TrainEvalDue(epoch[0])
       THEN evaluate_one_epoch(train_metrics_dict, opt.num_decoder_layers,
                               opt.ap_iou_thresholds)
       ELSE train_metrics_dict
  /\ val_metrics_dict' =
       evaluate_one_epoch(val_metrics_dict, opt.num_decoder_layers,
                          opt.ap_iou_thresholds)
  /\ LET r == EarlyStopping_call(es, valid_loss)
         key == IntEpoch(epoch[0])
         w == r.saved /\ ES_saves(epoch[0], opt.save_freq)
         fs1 == IF w THEN save_checkpoint(files[0], key, net[0], TRUE,
                                          opt.save_freq)
                ELSE files[0]
         log1 == IF w THEN WroteBy(key, "early_stopping") ELSE << >>
     IN /\ es' = r.es
        /\ last' = CallFacts(es, valid_loss, epoch[0], r)
        /\ last_improved' = IF r.saved THEN epoch[0] ELSE last_improved
        /\ IF Breaks(r.es)
           THEN /\ files' = [files EXCEPT ![0] = fs1]
                /\ wlog' = [wlog EXCEPT ![0] = log1]
                /\ exit_epoch' = [exit_epoch EXCEPT ![0] = epoch[0]]
                /\ pc' = [pc EXCEPT ![0] = "after"]
                /\ UNCHANGED epoch
           ELSE /\ files' = [files EXCEPT ![0] =
                               save_checkpoint(fs1, key, net[0],
                                               PeriodicSaveCur, opt.save_freq)]
                /\ wlog' = [wlog EXCEPT ![0] =
                              log1 \o (IF WritesFile(key, PeriodicSaveCur,
                                                     opt.save_freq)
                                       THEN WroteBy(key, "main") ELSE << >>)]
                /\ epoch' = [epoch EXCEPT ![0] = @ + 1]
                /\ pc' = [pc EXCEPT ![0] = "loop"]
                /\ UNCHANGED exit_epoch
  /\ UNCHANGED << opt, world, n_batches, ckpt_in, start_epoch, net, batch_idx,
                  ops, arrive, sampler_epoch, trained, hist, final_evals, ret,
                  sched_at_entry >>

\* main, lines 403-408: the final evaluation on the test loader with a
\* fresh defaultdict, save_checkpoint(args, 'last', ..., save_cur=True), and
\* the return of the path of ckpt_epoch_last.pth.
AfterLoop(r) ==
  /\ pc[r] = "after"
  /\ final_evals' = [final_evals EXCEPT ![r] = @ + 1]
  /\ files' = [files EXCEPT ![r] =
                 save_checkpoint(@, LastEpoch, net[r], FinalSaveCur,
                                 opt.save_freq)]
  /\ wlog' = [wlog EXCEPT ![r] =
                @ \o (IF WritesFile(LastEpoch, FinalSaveCur, opt.save_freq)
                      THEN WroteBy(LastEpoch, "main") ELSE << >>)]
  /\ ret' = [ret EXCEPT ![r] = "ckpt_epoch_last.pth"]
  /\ pc' = [pc EXCEPT ![r] = "done"]
  /\ UNCHANGED << last_improved,
                  opt, world, n_batches, ckpt_in, start_epoch, epoch, net,
                  batch_idx, ops, arrive, sampler_epoch, trained, es, hist,
                  last, val_metrics_dict, train_metrics_dict, sched_at_entry,
                  exit_epoch >>

Next ==
  \/ \E r \in Ranks : Startup(r)
  \/ \E r \in Ranks : LoopHead(r)
  \/ \E r \in Ranks : BatchBegin(r)
  \/ \E r \in Ranks : BatchEnd(r)
  \/ \E r \in Ranks : TrainReturn(r)
  \/ \E r \in Ranks : EpochTailOther(r)
  \/ EpochTailNoVal
  \/ \E v \in Losses : EpochTailVal(v)
  \/ \E r \in Ranks : AfterLoop(r)

Spec == Init /\ [][Next]_vars

\* ------------------------------------------------ claims on EarlyStopping
\* The run of consecutive non-improving calls, from the losses alone: the
\* first call improves; a later call improves when its loss is at most the
\* loss of the latest improving call minus delta.  `hit` records that some
\* call was the P-th of its run.
RECURSIVE RunInfo(_, _, _)
RunInfo(h, d, P) ==
  IF Len(h) = 1 THEN [ best |-> h[1], run |-> 0, hit |-> FALSE ]
  ELSE LET prev == RunInfo(SubSeq(h, 1, Len(h) - 1), d, P)
           v == h[Len(h)]
       IN IF v <= prev.best - d
          THEN [ best |-> v, run |-> 0, hit |-> prev.hit ]
          ELSE [ best |-> prev.best, run |-> prev.run + 1,
                 hit |-> prev.hit \/ (prev.run + 1 = P) ]

\* C1: with patience P >= 1, after any sequence of calls the counter is the
\* number of consecutive non-improving calls since the last improving call,
\* and early_stop is True exactly when some call so far was the P-th
\* consecutive non-improving one (False before that call, True from it on).
C1_CounterAndStop ==
  IF hist = << >>
  THEN es.counter = 0 /\ ~es.early_stop
  ELSE LET i == RunInfo(hist, es.delta, es.patience) IN
       /\ es.counter = i.run
       /\ es.early_stop = i.hit
       /\ (last.called /\ ~last.stop_before /\ es.early_stop)
            => es.counter = es.patience

\* C1 witness: patience 2, the fifth call is the one that first sets
\* early_stop, so an improving call reset an earlier run of non-improving
\* calls.
C1_Witness ==
  /\ es.patience = 2 /\ Len(hist) = MaxCalls
  /\ es.early_stop /\ ~last.stop_before
  /\ \E k \in 2 .. (MaxCalls - 3) : hist[k] > hist[1] - es.delta

\* C2: EarlyStopping.save_checkpoint is reached only on calls whose val_loss
\* is strictly lower than the val_loss_min held before the call, and a call
\* whose val_loss equals the best loss so far neither saves nor resets the
\* counter (stated for delta >= 0).
C2_SavesOnlyOnStrictDecrease ==
  (last.called /\ es.delta >= 0) =>
    /\ last.saved => last.val_loss < last.min_before
    /\ (~last.first /\ last.val_loss = 0 - last.best_before)
         => (~last.saved /\ es.counter = last.counter_before + 1)

\* C3: for every call after the first, the call is an improvement
\* (best_score updated, counter reset to 0) iff val_loss <= best_loss - delta
\* with best_loss = -best_score before the call; otherwise the counter is
\* incremented by exactly 1 (and best_score is kept).
C3_DeltaThreshold ==
  (last.called /\ ~last.first) =>
    IF last.val_loss <= (0 - last.best_before) - es.delta
    THEN es.best_score = 0 - last.val_loss /\ es.counter = 0
    ELSE es.counter = last.counter_before + 1
         /\ es.best_score = last.best_before

\* C3 witness: delta 1, a call exactly delta below the best loss that resets
\* a non-zero counter.
C3_Witness ==
  /\ last.called /\ ~last.first /\ es.delta = 1
  /\ last.val_loss = (0 - last.best_before) - es.delta
  /\ last.counter_before > 0 /\ es.counter = 0

\* ---------------------------------------------------------- claims on main
Paths(r) == { f.path : f \in files[r] }

\* The epochs of rank 0 whose iteration of the loop body has ended (by
\* reaching its end or by break) are trained[0][1..TailsDone]; wlog[0] holds
\* the writes of the latest of them.
TailsDone == IF pc[0] = "tail" THEN Len(trained[0]) - 1 ELSE Len(trained[0])

WritesOf(r, key) == SelectSeq(wlog[r], LAMBDA x : x.key = key)

\* C4: with save_freq >= 1, at every validation epoch e at which
\* EarlyStopping judged the loss improved, rank 0 wrote ckpt_epoch_e.pth
\* exactly once during that epoch: by the early-stopping save when e is not
\* a multiple of save_freq, by the periodic save of main when it is.
C4_ImprovedEpochWrittenOnce ==
  (pc[0] # "es" /\ last.called /\ last.saved /\ TailsDone > 0) =>
    LET e == trained[0][TailsDone] IN
    last.epoch = e =>
      /\ exit_epoch[0] # e
      /\ IntEpoch(e) \in Paths(0)
      /\ WritesOf(0, IntEpoch(e)) =
           << [ key |-> IntEpoch(e),
                by |-> IF e % opt.save_freq = 0 THEN "main"
                       ELSE "early_stopping" ] >>

\* C4 witness: a validation after the first improved at an epoch that is not
\* a multiple of save_freq, and the early-stopping save wrote the file.
C4_Witness ==
  /\ pc[0] = "loop" /\ last.called /\ last.saved /\ ~last.first
  /\ last.epoch = epoch[0] - 1
  /\ last.epoch % opt.save_freq # 0
  /\ WritesOf(0, IntEpoch(last.epoch)) # << >>

\* C5 as stated: on rank 0, every trained epoch e with e % save_freq == 0
\* has its file ckpt_epoch_e.pth once the next epoch starts or the loop is
\* left, the epoch at which early stopping triggers included.
C5_PeriodicSaveAlways ==
  pc[0] # "es" =>
    LET written == Paths(0) IN
    \A i \in 1 .. TailsDone :
      trained[0][i] % opt.save_freq = 0 => IntEpoch(trained[0][i]) \in written

\* C5 amended: the same for every such epoch except the one at which early
\* stopping breaks out of the loop; at that epoch the periodic save is
\* skipped and ckpt_epoch_e.pth is not written.
C5_PeriodicSaveUnlessBreak ==
  pc[0] # "es" =>
    LET written == Paths(0) IN
    \A i \in 1 .. TailsDone :
      LET e == trained[0][i] IN
      /\ (e % opt.save_freq = 0 /\ e # exit_epoch[0])
           => IntEpoch(e) \in written
      /\ e = exit_epoch[0] => IntEpoch(e) \notin written

\* C5 witness: rank 0 has left the loop by early stopping at an epoch that
\* is a multiple of save_freq, after epochs that were saved.
C5_Witness ==
  /\ pc[0] = "after" /\ exit_epoch[0] > 1
  /\ exit_epoch[0] % opt.save_freq = 0
  /\ IntEpoch(exit_epoch[0] - 1) \in Paths(0)

\* C6: load_checkpoint succeeds on every checkpoint file written during the
\* run (periodic, early-stopping and final), restores the saved model,
\* optimizer and scheduler states and sets start_epoch to the stored
\* epoch + 1.
C6_RoundTrip ==
  \A r \in Ranks : \A f \in files[r] :
    LET l == load_checkpoint(f, opt.start_epoch, NetInit) IN
    /\ l.ok
    /\ l.start_epoch = f.epoch.n + 1
    /\ l.net = [ model |-> f.model, optimizer |-> f.optimizer,
                 scheduler |-> f.scheduler ]

RangeSeq(a, b) == [ i \in 1 .. (IF b >= a THEN b - a + 1 ELSE 0) |-> a + i - 1 ]

\* C7: every rank trains epochs in strictly increasing order, each at most
\* once, only epochs in start_epoch..max_epoch, with set_epoch(e) called
\* before the training of e; and a run in which early stopping never
\* triggers and whose checkpoint (if any) loaded has, when it ends, trained
\* every epoch of the range exactly once.
C7_EpochIteration ==
  \A r \in Ranks :
    /\ \A i \in 1 .. Len(trained[r]) :
         /\ start_epoch[r] <= trained[r][i] /\ trained[r][i] <= opt.max_epoch
         /\ i > 1 => trained[r][i - 1] < trained[r][i]
         /\ trained[r][i] <= sampler_epoch[r]
    /\ pc[r] \in {"train", "allreduce"} => sampler_epoch[r] = epoch[r]
    /\ (pc[r] \in {"done", "train_error"} /\ exit_epoch[0] < 0)
         => trained[r] = RangeSeq(start_epoch[r], opt.max_epoch)

\* The validations of the epochs rank 0 has trained.
ValidationsOf(t) ==
  Cardinality({ i \in 1 .. Len(t) : t[i] % opt.val_freq = 0 })

\* The lengths of the lists of a plots_dict.
ListLengths(d) == { d[k] : k \in DOMAIN d }

\* C8: a process that has left the epoch loop (range exhausted, break on
\* early stop, or empty range) can always go on to the end of main; when
\* main has returned it ran exactly one final evaluation, which left
\* val_metrics_dict as the loop left it, ckpt_epoch_last.pth holds the
\* final states whatever save_freq is, and the path of that file was
\* returned; before that, none of these has happened.
C8_FinalEvalAndSave ==
  \A r \in Ranks :
    /\ pc[r] = "after" => ENABLED AfterLoop(r)
    /\ exit_epoch[r] >= 0 => pc[r] \in {"after", "done"}
    /\ pc[r] = "done" =>
         /\ final_evals[r] = 1
         /\ ret[r] = "ckpt_epoch_last.pth"
         /\ Checkpoint(LastEpoch, 0).path \in Paths(r)
         /\ \A f \in files[r] : f.path = LastEpoch =>
              /\ f.model = net[r].model
              /\ f.optimizer = net[r].optimizer
              /\ f.scheduler = net[r].scheduler
    /\ pc[r] \notin {"done", "es"} =>
         final_evals[r] = 0 /\ ret[r] = "none" /\ LastEpoch \notin Paths(r)
    /\ (r = 0 /\ pc[r] \in {"after", "done"}) =>
         LET k == ValidationsOf(trained[0]) IN
         ListLengths(val_metrics_dict) = (IF k > 0 THEN {k} ELSE {})

\* C8 witness: a single process that returned from main after early
\* stopping broke the loop.
C8_Witness ==
  /\ world = 1 /\ pc[0] = "done" /\ exit_epoch[0] >= 0
  /\ final_evals[0] = 1 /\ LastEpoch \in Paths(0)

\* C9: with two or more ranks, no rank leaves the epoch loop by break at an
\* epoch after which another rank goes on to train a further epoch, and no
\* rank waits in an all-reduce that a rank which has returned from main
\* never entered.
C9_RanksInStep ==
  \A r \in Ranks : \A q \in Ranks :
    /\ (exit_epoch[r] >= 0 /\ pc[q] \in {"train", "allreduce"})
         => epoch[q] <= exit_epoch[r]
    /\ (pc[r] = "done" /\ pc[q] = "allreduce") => arrive[r] >= arrive[q]

ExpectedOps(clip_norm) ==
  << "zero_grad", "backward" >>
    \o (IF clip_norm > 0 THEN << "clip_grad_norm_" >> ELSE << >>)
    \o << "optimizer.step", "scheduler.step" >>

IsPrefix(a, b) == Len(a) <= Len(b) /\ a = SubSeq(b, 1, Len(a))

\* C10: the steps of a batch occur in the order zero_grad, backward,
\* gradient clipping (when clip_norm > 0), optimizer.step, scheduler.step,
\* once each; every call of train_one_epoch, however it ends, has then
\* advanced the scheduler by exactly len(train_loader) steps, and k trained
\* epochs by k * len(train_loader).
C10_StepsPerBatch ==
  \A r \in Ranks :
    /\ IsPrefix(ops[r], ExpectedOps(opt.clip_norm))
    /\ (pc[r] \in {"train", "tail", "train_error"} /\ ops[r] # << >>)
         => ops[r] = ExpectedOps(opt.clip_norm)
    /\ pc[r] \in {"tail", "train_error"}
         => net[r].scheduler - sched_at_entry[r] = n_batches
    /\ pc[r] \in {"tail", "loop", "after", "done"}
         => net[r].scheduler =
              (IF opt.checkpoint_path THEN ckpt_in.scheduler ELSE 0)
                + Len(trained[r]) * n_batches

\* ------------------------------------------ claims on evaluate_one_epoch
Distinct(q) == \A i \in 1 .. Len(q) : \A j \in 1 .. Len(q) : q[i] = q[j] => i = j

\* The prefixes the claim names for n decoder layers.
NamedPrefixes(n) ==
  IF n > 0 THEN {Last_, Proposal_} \cup { Head_(i) : i \in 0 .. (n - 2) }
  ELSE {Proposal_}

\* C11: with n = num_decoder_layers, the prefixes evaluated are exactly
\* 'last_', 'proposal_' and '{i}head_' for i in 0..n-2 (n+1 of them) when
\* n > 0 and only 'proposal_' when n <= 0; with distinct IoU thresholds each
\* call appends exactly one value to the AP list and one to the AR list of
\* every prefix/threshold pair, so after k validations the lists of
\* val_metrics_dict are those of all these pairs and each has length k.
C11_MultiHeadEvaluation ==
  pc[0] = "eval" =>
    LET n == opt.num_decoder_layers
        th == opt.ap_iou_thresholds
        k == Len(hist)
        evaluated == { key.prefix : key \in DOMAIN val_metrics_dict }
    IN /\ k = 0 => val_metrics_dict = EmptyDict
       /\ k > 0 =>
            /\ evaluated = NamedPrefixes(n)
            /\ Cardinality(evaluated) = (IF n > 0 THEN n + 1 ELSE 1)
            /\ DOMAIN val_metrics_dict =
                 { PlotKey(p, th[i], kind) :
                     p \in NamedPrefixes(n), i \in 1 .. Len(th),
                     kind \in {"AP", "AR"} }
       /\ Distinct(th) => ListLengths(val_metrics_dict) \subseteq {k}

\* C11 witness: three decoder layers and the two default thresholds, after
\* two validations: sixteen lists, of two values each.
C11_Witness ==
  /\ pc[0] = "eval" /\ opt.num_decoder_layers = 3
  /\ opt.ap_iou_thresholds = DefaultThresholds /\ Len(hist) = 2
  /\ Cardinality(DOMAIN val_metrics_dict) = 16
  /\ val_metrics_dict[PlotKey(Head_(1), 50, "AR")] = 2

\* ------------------------------------------- claims on early stopping in main
\* C12: in main the patience is 20; on rank 0 no epoch is in training more
\* than 20 * val_freq epochs past the last epoch at which the validation
\* loss improved (the first validation, or a loss at most the best so far,
\* delta being 0 in main); the loop is left by break exactly at the first validation
\* epoch that is the 20th in a row without improvement; once early_stop is
\* set rank 0 trains no further epoch; and the counter never exceeds 20.
C12_EarlyStopControl ==
  pc[0] \notin {"es", "eval"} =>
    /\ es.patience = 20
    /\ es.counter <= 20
    /\ (last_improved >= 0 /\ pc[0] \in {"train", "allreduce", "tail"})
         => epoch[0] <= last_improved + 20 * opt.val_freq
    /\ \A i \in 1 .. Len(trained[0]) :
         last_improved >= 0 => trained[0][i] <= last_improved + 20 * opt.val_freq
    /\ es.early_stop <=> es.counter = 20
    /\ es.early_stop <=> exit_epoch[0] >= 0
    /\ es.early_stop =>
         /\ pc[0] \in {"after", "done"}
         /\ exit_epoch[0] = last_improved + 20 * opt.val_freq
         /\ last.epoch = exit_epoch[0]
         /\ epoch[0] = exit_epoch[0]
         /\ trained[0][Len(trained[0])] = exit_epoch[0]
    /\ last.called =>
         /\ es.counter * opt.val_freq = last.epoch - last_improved
         /\ last_improved = last.epoch
              <=> (last.first \/ last.val_loss <= 0 - last.best_before)

\* C12 witness: validating every second epoch, the loss improved at a
\* validation after the first, then twenty validations in a row did not
\* improve and rank 0 left the loop and returned from main.
C12_Witness ==
  /\ opt.val_freq = 2 /\ pc[0] = "done" /\ es.early_stop
  /\ last_improved > opt.val_freq
  /\ exit_epoch[0] = last_improved + 40 /\ es.counter = 20

====
